---------------------------- MODULE Spec2Model ----------------------------
(***************************************************************************)
(* Cities API (src/main.py): one endpoint, GET /cities, served by an       *)
(* asyncio event loop.  A request passes the SlowAPI middleware (the       *)
(* "10/minute" limit keyed by remote address), then the handler            *)
(* get_cities: filter-presence validation, load_cities (lru_cache), the    *)
(* three filters, the sort and the slice.                                  *)
(*                                                                         *)
(* Conventions.  A Python str is the tuple of its code points, so that     *)
(* lower(), comparison and the fuzzy score are computed, not assumed.      *)
(* An Optional value is a tuple of length 0 (None) or 1 (the value).       *)
(* Time is counted in ticks; every event of a tick happens at the tick's   *)
(* instant, and the limiter's 60 seconds are TicksPerWindow ticks.         *)
(***************************************************************************)
EXTENDS Integers, Sequences, FiniteSets, TLC

VARIABLES
    in_path,      \* the rows of the file at in_path (never written)
    cache,        \* lru_cache of load_cities: None or Some(records)
    reads,        \* how many times load_cities opened and parsed the file
    now,          \* time.time(), in ticks
    storage,      \* limits MemoryStorage.storage:     key -> counter
    expirations,  \* limits MemoryStorage.expirations: key -> expiry time
    recent,       \* history: client -> admissions per tick, newest first
    sent,         \* history: requests received so far
    inflight,     \* requests admitted by the middleware, handler not yet run
    resp          \* the last response sent: None or Some(response)

vars == <<in_path, cache, reads, now, storage, expirations, recent, sent, inflight, resp>>

---------------------------------------------------------------------------
(* Bounds of the model *)

TicksPerWindow == 2      \* time resolution: ticks per 60 seconds
MaxRequests == 12        \* requests received in a run
MaxInFlight == 2         \* requests between middleware and handler
MaxTime == TicksPerWindow   \* the clock stops one window after the start

(* Program constants *)

Quota == 10              \* "10/minute"
Threshold == 70          \* fuzz.partial_ratio(...) >= 70
DefaultLimit == 50       \* limit: int = Query(50, ...)
DefaultOffset == 0       \* offset: int = Query(0, ...)

---------------------------------------------------------------------------
(* Optional values and strings *)

None == << >>
Some(v) == <<v>>
EmptyStr == << >>

\* Python truthiness of an Optional[str]: None and "" are falsy.  q and tz are
\* code-point strings; sort is kept as a field name, a TLA+ string.
Truthy(o) == o # None /\ o[1] # EmptyStr
TruthyName(o) == o # None /\ o[1] # ""

Max(a, b) == IF a >= b THEN a ELSE b
Min(a, b) == IF a <= b THEN a ELSE b

\* str.lower() on ASCII: 'A'..'Z' (65..90) map to 'a'..'z'.
LowerChar(c) == IF c >= 65 /\ c <= 90 THEN c + 32 ELSE c
Lower(s) == [i \in 1..Len(s) |-> LowerChar(s[i])]

\* str < str: lexicographic by code point, a proper prefix is smaller.
RECURSIVE StrLess(_, _)
StrLess(a, b) ==
    IF b = << >> THEN FALSE
    ELSE IF a = << >> THEN TRUE
    ELSE IF Head(a) # Head(b) THEN Head(a) < Head(b)
    ELSE StrLess(Tail(a), Tail(b))

\* int(s) for an optionally signed decimal string.
RECURSIVE ParseDigits(_, _)
ParseDigits(s, acc) ==
    IF s = << >> THEN acc ELSE ParseDigits(Tail(s), 10 * acc + (Head(s) - 48))
ParseInt(s) ==
    IF s # << >> /\ Head(s) = 45 THEN 0 - ParseDigits(Tail(s), 0)
    ELSE ParseDigits(s, 0)

---------------------------------------------------------------------------
(* The data file.  A row keeps the columns load_cities reads: 1 name,      *)
(* 4 latitude, 5 longitude, 8 country code, 14 population, -2 timezone,    *)
(* each as the string the csv reader yields.  Latitudes and longitudes     *)
(* are whole degrees.                                                      *)

London == <<76,111,110,100,111,110>>
NewYork == <<78,101,119,32,89,111,114,107>>
York == <<89,111,114,107>>
Lod == <<76,111,100>>
TzLondon == <<69,117,114,111,112,101,47,76,111,110,100,111,110>>
TzNewYork == <<65,109,101,114,105,99,97,47,78,101,119,95,89,111,114,107>>
TzJerusalem == <<65,115,105,97,47,74,101,114,117,115,97,108,101,109>>

Row(name, lat, lng, loc, pop, tz) ==
    [c1 |-> name, c4 |-> lat, c5 |-> lng, c8 |-> loc, c14 |-> pop, tz2 |-> tz]

RowLondon == Row(London, <<53,49>>, <<48>>, <<71,66>>, <<55,53,53,54,57,48,48>>, TzLondon)
RowNewYork == Row(NewYork, <<52,48>>, <<45,55,52>>, <<85,83>>, <<56,49,55,53,49,51,51>>, TzNewYork)
RowYork == Row(York, <<53,51>>, <<45,49>>, <<71,66>>, EmptyStr, TzLondon)
RowLod == Row(Lod, <<51,50>>, <<51,53>>, <<73,76>>, <<48>>, TzJerusalem)

Files ==
    { <<RowLondon, RowNewYork, RowYork, RowLod>>,
      <<RowNewYork, RowLod, RowLondon>> }

\* One iteration of the loop over the csv rows.
ParseRow(row) ==
    [ name |-> row.c1,
      lat  |-> ParseInt(row.c4),
      lng  |-> ParseInt(row.c5),
      tz   |-> row.tz2,
      pop  |-> IF row.c14 # EmptyStr THEN ParseInt(row.c14) ELSE 0,
      loc  |-> row.c8 ]

\* The body of load_cities: the records in file order.
ParseFile(f) == [i \in 1..Len(f) |-> ParseRow(f[i])]

---------------------------------------------------------------------------
(* fuzz.partial_ratio (RapidFuzz): the best normalized Indel similarity of *)
(* the shorter string against the windows of the longer one, 0..100.       *)

\* Longest common subsequence length, row by row: row[j] is the length for
\* the prefix of a read so far against the first j - 1 characters of b.
RECURSIVE LcsRow(_, _, _, _)
LcsRow(x, b, prev, cur) ==
    LET j == Len(cur) IN
    IF j > Len(b) THEN cur
    ELSE LcsRow(x, b, prev,
            Append(cur, IF x = b[j] THEN prev[j] + 1 ELSE Max(prev[j + 1], cur[j])))

RECURSIVE LcsRows(_, _, _)
LcsRows(a, b, prev) ==
    IF a = << >> THEN prev ELSE LcsRows(Tail(a), b, LcsRow(Head(a), b, prev, <<0>>))

Lcs(a, b) == LcsRows(a, b, [j \in 1..(Len(b) + 1) |-> 0])[Len(b) + 1]

\* fuzz.ratio scaled to integers: floor of 100 * 2*lcs / (len a + len b).
Ratio(a, b) ==
    IF Len(a) + Len(b) = 0 THEN 100
    ELSE (200 * Lcs(a, b)) \div (Len(a) + Len(b))

\* The windows of `longer` scored against `shorter` (length m): the prefixes
\* shorter than m, every substring of length m, and the suffixes shorter than m.
Windows(m, longer) ==
    LET n == Len(longer) IN
    { SubSeq(longer, 1, i) : i \in 1..(m - 1) }
        \cup { SubSeq(longer, i, i + m - 1) : i \in 1..(n - m + 1) }
        \cup { SubSeq(longer, i, n) : i \in (n - m + 2)..n }

SetMax(S) == CHOOSE x \in S : \A y \in S : y <= x

PartialRatioImpl(shorter, longer) ==
    SetMax({0} \cup { Ratio(shorter, w) : w \in Windows(Len(shorter), longer) })

PartialRatio(s1, s2) ==
    IF s1 = << >> /\ s2 = << >> THEN 100
    ELSE IF s1 = << >> \/ s2 = << >> THEN 0
    ELSE IF Len(s1) < Len(s2) THEN PartialRatioImpl(s1, s2)
    ELSE IF Len(s1) > Len(s2) THEN PartialRatioImpl(s2, s1)
    ELSE Max(PartialRatioImpl(s1, s2), PartialRatioImpl(s2, s1))

QLond == <<76,111,110,100>>
QYORK == <<89,79,82,75>>

\* The condition of the q comprehension.
Matches(q, name) == PartialRatio(Lower(q), Lower(name)) >= Threshold

---------------------------------------------------------------------------
(* The query pipeline of get_cities *)

\* [c for c in data if fuzz.partial_ratio(q.lower(), c["name"].lower()) >= 70]
FilterQ(data, q) == SelectSeq(data, LAMBDA c : Matches(q, c.name))
\* [c for c in data if c["tz"] == tz]
FilterTz(data, tz) == SelectSeq(data, LAMBDA c : c.tz = tz)
\* [c for c in data if c["pop"] >= min_pop]
FilterPop(data, minPop) == SelectSeq(data, LAMBDA c : c.pop >= minPop)

StepQ(data, q) == IF Truthy(q) THEN FilterQ(data, q[1]) ELSE data
StepTz(data, tz) == IF Truthy(tz) THEN FilterTz(data, tz[1]) ELSE data
StepPop(data, minPop) == IF minPop # None THEN FilterPop(data, minPop[1]) ELSE data

\* Mutant: the population filter run on the whole dataset.
FilteredPopOnAll(data, q, tz, minPop) ==
    IF minPop # None THEN FilterPop(data, minPop[1]) ELSE StepTz(StepQ(data, q), tz)

\* The three filter steps in the handler's order.
Filtered(data, q, tz, minPop) == StepPop(StepTz(StepQ(data, q), tz), minPop)

StrFields == {"name", "tz", "loc"}
NumFields == {"pop", "lat", "lng"}

\* c.get(sort)
SortKey(c, sort) == IF sort \in DOMAIN c THEN Some(c[sort]) ELSE None

\* key(a) < key(b) for keys of the field `sort`.
KeyLess(a, b, sort) ==
    IF sort \in StrFields THEN StrLess(a[sort], b[sort]) ELSE a[sort] < b[sort]

Reverse(s) == [i \in 1..Len(s) |-> s[Len(s) + 1 - i]]

\* Insertion behind every element that is not greater: a stable ascending sort.
RECURSIVE InsertSorted(_, _, _)
InsertSorted(c, sorted, sort) ==
    IF sorted = << >> THEN <<c>>
    ELSE IF KeyLess(c, Head(sorted), sort) THEN <<c>> \o sorted
    ELSE <<Head(sorted)>> \o InsertSorted(c, Tail(sorted), sort)

RECURSIVE SortAsc(_, _)
SortAsc(data, sort) ==
    IF data = << >> THEN << >>
    ELSE InsertSorted(data[Len(data)], SortAsc(SubSeq(data, 1, Len(data) - 1), sort), sort)

\* Mutant: the descending order as the ascending result reversed.
SortedThenReversed(data, sort, reverse) ==
    IF reverse THEN Reverse(SortAsc(data, sort)) ELSE SortAsc(data, sort)

\* sorted(data, key=..., reverse=reverse): with reverse the list is reversed,
\* sorted ascending and reversed again, which keeps equal keys in input order.
Sorted(data, sort, reverse) ==
    IF reverse THEN Reverse(SortAsc(Reverse(data), sort)) ELSE SortAsc(data, sort)

\* reverse = (order == "desc")
IsReverse(order) == order = "desc"

\* sorted() compares None with None when the key is on no record: TypeError,
\* raised as soon as two keys are compared.
SortRaises(data, sort) ==
    /\ TruthyName(sort)
    /\ Len(data) >= 2
    /\ \E i \in 1..Len(data) : SortKey(data[i], sort[1]) = None

StepSort(data, sort, order) ==
    IF TruthyName(sort) /\ ~SortRaises(data, sort)
    THEN Sorted(data, sort[1], IsReverse(order))
    ELSE data

\* Mutant: a negative bound clamped to 0 instead of counted from the end.
SliceIndexClampOnly(i, len) == Max(0, Min(i, len))

\* A slice bound as list slicing resolves it: a negative one counts from the
\* end, and the result is clamped to 0..len.
SliceIndex(i, len) == IF i < 0 THEN Max(i + len, 0) ELSE Min(i, len)

\* Mutant: the end of the slice included.
SliceInclusive(data, offset, limit) ==
    LET start == IF offset < 0 THEN Max(offset + Len(data), 0) ELSE Min(offset, Len(data))
        stop  == IF offset + limit + 1 < 0 THEN Max(offset + limit + 1 + Len(data), 0)
                 ELSE Min(offset + limit + 1, Len(data))
    IN  IF stop > start THEN SubSeq(data, start + 1, stop) ELSE << >>

\* data[offset : offset + limit]
Slice(data, offset, limit) ==
    LET start == SliceIndex(offset, Len(data))
        stop  == SliceIndex(offset + limit, Len(data))
    IN  IF stop > start THEN SubSeq(data, start + 1, stop) ELSE << >>

\* The sort and the slice on the records the filters kept.
Page(kept, r) == Slice(StepSort(kept, r.sort, r.order), r.offset, r.limit)

\* Lines 139-152 on the records load_cities returned.
Query(data, r) == Page(Filtered(data, r.q, r.tz, r.min_pop), r)

\* Mutant: min_pop tested for truth, so that 0 counts as absent.
NoFilterFalsyPop(r) ==
    ~Truthy(r.q) /\ ~Truthy(r.tz) /\ (r.min_pop = None \/ r.min_pop[1] = 0)

\* not q and not tz and min_pop is None
NoFilter(r) == ~Truthy(r.q) /\ ~Truthy(r.tz) /\ r.min_pop = None

---------------------------------------------------------------------------
(* The rate limiter: Limiter(key_func=get_remote_address) with the limit   *)
(* "10/minute".  slowapi's default strategy is the fixed window over the   *)
(* in-memory storage: hit() increments the key's counter, a counter that   *)
(* is created gets the expiry now + 60 s, an expired counter is dropped,   *)
(* and the hit is allowed while the counter is at most 10.                 *)

Clients == {"10.0.0.1", "10.0.0.2"}

\* Mutant: one key for every client.
key_func_shared(c) == "0.0.0.0"

\* get_remote_address
key_func(c) == c

Keys == { key_func(c) : c \in Clients }

\* MemoryStorage.get: an entry whose expiry has passed is gone.
CounterBefore(k) == IF expirations[k] <= now THEN 0 ELSE storage[k]

\* MemoryStorage.incr: the counter after this hit.
CountAfterHit(k) == CounterBefore(k) + 1

\* Mutant: every hit moves the expiry (an elastic window).
ExpiryElastic(k) == now + TicksPerWindow

\* MemoryStorage.incr: only the hit that creates the counter sets the expiry.
ExpiryAfterHit(k) ==
    IF CountAfterHit(k) = 1 THEN now + TicksPerWindow ELSE expirations[k]

\* Mutant: the comparison off by one.
AllowedOffByOne(count) == count <= Quota + 1

\* FixedWindowRateLimiter.hit: incr(...) <= amount
Allowed(count) == count <= Quota

---------------------------------------------------------------------------
(* Requests and responses *)

Request(q, tz, minPop, limit, offset, sort, order) ==
    [q |-> q, tz |-> tz, min_pop |-> minPop, limit |-> limit, offset |-> offset,
     sort |-> sort, order |-> order]

\* A request with the defaults of the Query(...) declarations.
Defaults(q, tz, minPop) ==
    Request(q, tz, minPop, DefaultLimit, DefaultOffset, None, "asc")

\* Parameters the clients of the running server send.
ProbeRequests ==
    { Defaults(None, None, None),
      Defaults(Some(EmptyStr), None, None),
      Defaults(None, None, Some(0)) }

\* The request of the limiter's clients.
PlainRequest == Defaults(None, None, Some(0))

\* Parameters of a single query.
SortOrders ==
    { <<None, "asc">>, <<Some(""), "desc">>, <<Some("area"), "asc">>, <<Some("lng"), "desc">> }
        \cup { <<Some(f), o>> : f \in {"name", "pop", "tz"}, o \in {"asc", "desc", "DESC", ""} }

QueryRequests ==
    { Request(q, tz, minPop, limit, offset, so[1], so[2]) :
        q \in {None, Some(EmptyStr), Some(QLond), Some(QYORK)},
        tz \in {None, Some(EmptyStr), Some(TzLondon)},
        minPop \in {None, Some(0), Some(8000000)},
        limit \in {-1, 0, 1, 2, DefaultLimit},
        offset \in {-5, -2, -1, 0, 1, 3, 5},
        so \in SortOrders }

\* steps: what ran for the request, in order ("read" is load_cities opening
\* the file).  cold: the request passed the middleware while the cache was
\* still empty (history).
Response(c, status, r, page, steps, cold) ==
    [client |-> c, status |-> status, req |-> r, page |-> page, steps |-> steps,
     cold |-> cold]

\* The steps of load_cities: a call, and the file read when nothing is cached.
LoadSteps(c) == IF c = None THEN <<"load", "read">> ELSE <<"load">>

\* load_cities under lru_cache: the value returned, the cache and the number
\* of file reads after the call.
load_cities(c, f) == IF c = None THEN ParseFile(f) ELSE c[1]
CacheAfterLoad(c, f) == Some(load_cities(c, f))

\* Mutant: no lru_cache, every call reads the file.
ReadsUncached(c, n) == n + 1

ReadsAfterLoad(c, n) == IF c = None THEN n + 1 ELSE n

---------------------------------------------------------------------------
(* The state machine *)

NoHistory == [i \in 1..TicksPerWindow |-> 0]

Init ==
    /\ in_path \in Files
    /\ cache = None
    /\ reads = 0
    /\ now = 0
    /\ storage = [k \in Keys |-> 0]
    /\ expirations = [k \in Keys |-> 0]
    /\ recent = [c \in Clients |-> NoHistory]
    /\ sent = 0
    /\ inflight = {}
    /\ resp = None

\* Time passes; the storage's expiry timer drops the entries that are due.
Tick ==
    /\ now < MaxTime
    /\ now' = now + 1
    /\ storage' = [k \in Keys |-> IF expirations[k] <= now + 1 THEN 0 ELSE storage[k]]
    /\ expirations' = [k \in Keys |-> IF expirations[k] <= now + 1 THEN 0 ELSE expirations[k]]
    /\ recent' = [c \in Clients |-> <<0>> \o SubSeq(recent[c], 1, TicksPerWindow - 1)]
    /\ UNCHANGED <<in_path, cache, reads, sent, inflight, resp>>

\* The limit check of client c's request with parameters p, then either the
\* 429 response of the exception handler or the call of the route, which runs
\* as a task of its own.
LimitCheck(c, p) ==
    LET k == key_func(c)
        n == CountAfterHit(k)
    IN  /\ sent < MaxRequests
        /\ Cardinality(inflight) < MaxInFlight
        /\ sent' = sent + 1
        /\ storage' = [storage EXCEPT ![k] = n]
        /\ expirations' = [expirations EXCEPT ![k] = ExpiryAfterHit(k)]
        /\ IF Allowed(n)
           THEN /\ inflight' = inflight \cup {[client |-> c, params |-> p, cold |-> cache = None]}
                /\ recent' = [recent EXCEPT ![c][1] = @ + 1]
                /\ resp' = resp
           ELSE /\ resp' = Some(Response(c, 429, p, None, <<"limit">>, cache = None))
                /\ UNCHANGED <<inflight, recent>>
        /\ UNCHANGED <<in_path, cache, reads, now>>

\* Mutant: the filters validated before the limit check.
ReceiveValidateFirst(c, p) ==
    IF NoFilter(p)
    THEN /\ sent < MaxRequests
         /\ sent' = sent + 1
         /\ resp' = Some(Response(c, 400, p, None, <<"validate">>, cache = None))
         /\ UNCHANGED <<in_path, cache, reads, now, storage, expirations, recent, inflight>>
    ELSE LimitCheck(c, p)

\* A request arrives: SlowAPIMiddleware, the only middleware of the app, is
\* the first code it meets.
Receive(c, p) == LimitCheck(c, p)

\* The body of get_cities for an admitted request; it has no await, so the
\* event loop runs it as one step.
get_cities(a) ==
    LET r == a.params IN
    /\ a \in inflight
    /\ inflight' = inflight \ {a}
    /\ IF NoFilter(r)
       THEN /\ resp' = Some(Response(a.client, 400, r, None, <<"limit", "validate">>, a.cold))
            /\ UNCHANGED <<cache, reads>>
       ELSE LET data == load_cities(cache, in_path)
                kept == Filtered(data, r.q, r.tz, r.min_pop)
            IN  /\ cache' = CacheAfterLoad(cache, in_path)
                /\ reads' = ReadsAfterLoad(cache, reads)
                /\ resp' = IF SortRaises(kept, r.sort)
                           THEN Some(Response(a.client, 500, r, None,
                                   <<"limit", "validate">> \o LoadSteps(cache)
                                       \o <<"filter", "sort">>, a.cold))
                           ELSE Some(Response(a.client, 200, r, Some(Page(kept, r)),
                                   <<"limit", "validate">> \o LoadSteps(cache)
                                       \o <<"filter", "sort", "slice">>, a.cold))
    /\ UNCHANGED <<in_path, now, storage, expirations, recent, sent>>

\* The server within one instant: any clients, any interleaving of
\* middleware and handlers.
NextServer ==
    \/ \E c \in Clients, p \in ProbeRequests : Receive(c, p)
    \/ \E a \in inflight : get_cities(a)

SpecServer == Init /\ [][NextServer]_vars

\* The limiter over time: the clients send the plain request, one at a time.
NextLimiter ==
    \/ Tick
    \/ inflight = {} /\ \E c \in Clients : Receive(c, PlainRequest)
    \/ \E a \in inflight : get_cities(a)

SpecLimiter == Init /\ [][NextLimiter]_vars

\* One query: the first request of the process, with any parameters.
NextQuery ==
    \/ sent = 0 /\ \E p \in QueryRequests : Receive("10.0.0.1", p)
    \/ \E a \in inflight : get_cities(a)

SpecQuery == Init /\ [][NextQuery]_vars

---------------------------------------------------------------------------
(* Vocabulary of the properties *)

RECURSIVE Sum(_)
Sum(seq) == IF seq = << >> THEN 0 ELSE Head(seq) + Sum(Tail(seq))

\* Would a check of client c be admitted now.
WouldAdmit(c) == Allowed(CountAfterHit(key_func(c)))

\* Admissions of client c in the last n ticks, the current one included.
AdmittedInLast(c, n) == Sum(SubSeq(recent[c], 1, n))

\* The key's window is open: its counter exists and has not expired.
WindowOpen(k) == expirations[k] > now

\* Ticks since the open window of k was created, the current one included.
WindowAge(k) == now - (expirations[k] - TicksPerWindow) + 1

Answered == resp # None
Last == resp[1]

\* A response of the handler with the default page and no sort: its page is
\* the whole sequence the filters kept.
WholePage(r) == r.limit = DefaultLimit /\ r.offset = DefaultOffset

---------------------------------------------------------------------------
(* C1: rate limit per key and window (SpecLimiter) *)

\* C1, as claimed: in every rolling 60-second interval at most 10 requests of a
\* client key are admitted.
C1_RollingQuota ==
    \A c \in Clients : AdmittedInLast(c, TicksPerWindow) <= Quota

\* C1, amended: the quota holds per fixed window, which opens at the key's
\* first check after the previous window expired and lasts 60 seconds: of the
\* checks of a window exactly the first 10 are admitted, every later one is
\* rejected, and a rolling 60-second interval, which can straddle two windows,
\* admits at most 20.
C1_WindowQuota ==
    \A c \in Clients :
        /\ WindowOpen(key_func(c)) =>
              /\ WindowAge(key_func(c)) \in 1..TicksPerWindow
              /\ AdmittedInLast(c, WindowAge(key_func(c))) = Min(storage[key_func(c)], Quota)
        /\ AdmittedInLast(c, TicksPerWindow) <= 2 * Quota

\* The 11th check of a window has been rejected with 429 after 10 admissions.
C1_Witness ==
    /\ Answered
    /\ Last.status = 429
    /\ WindowOpen(key_func(Last.client))
    /\ storage[key_func(Last.client)] = Quota + 1
    /\ AdmittedInLast(Last.client, WindowAge(key_func(Last.client))) = Quota

---------------------------------------------------------------------------
(* C2: the 400 response (SpecQuery) *)

\* C2, as claimed: a request the limiter admitted is answered 400 exactly when
\* none of q, tz and min_pop is supplied, whatever the supplied values are.
C2_StatusIffNoneSupplied ==
    (Answered /\ Last.status # 429) =>
        (Last.status = 400 <=>
            (Last.req.q = None /\ Last.req.tz = None /\ Last.req.min_pop = None))

\* C2, amended: the answer is 400 exactly when q is absent or empty, tz is
\* absent or empty and min_pop is absent (min_pop = 0 counts as supplied); a
\* request answered 400 has not called load_cities nor run a pipeline step.
C2_StatusIffNoUsableFilter ==
    (Answered /\ Last.status # 429) =>
        /\ Last.status = 400 <=>
              /\ Last.req.q \in {None, Some(EmptyStr)}
              /\ Last.req.tz \in {None, Some(EmptyStr)}
              /\ Last.req.min_pop = None
        /\ Last.status = 400 =>
              /\ Last.steps = <<"limit", "validate">>
              /\ Last.page = None
              /\ reads = 0
              /\ cache = None

\* An empty q, supplied alone, is answered 400.
C2_Witness ==
    /\ Answered
    /\ Last.status = 400
    /\ Last.req.q = Some(EmptyStr)
    /\ Last.req.tz = None

---------------------------------------------------------------------------
(* C3: load_cities reads the file once (SpecServer) *)

---------------------------------------------------------------------------
(* C4: pagination (SpecQuery) *)

\* The sequence the filters and the sort produce for request r.
FullResult(data, r) == StepSort(Filtered(data, r.q, r.tz, r.min_pop), r.sort, r.order)

\* The pages at offsets 0, L, 2L, ... up to the first one past the end, joined.
RECURSIVE Pages(_, _, _)
Pages(data, r, i) ==
    IF (i - 1) * r.limit > Len(data) THEN << >>
    ELSE Query(data, [r EXCEPT !.offset = (i - 1) * r.limit]) \o Pages(data, r, i + 1)

\* C4, as claimed: for every accepted limit L the page has at most L records.
C4_AtMostLimit ==
    (Answered /\ Last.status = 200) => Len(Last.page[1]) <= Last.req.limit

\* C4, amended: for every limit L >= 0 and every offset the page has at most L
\* records (a negative limit is accepted and returns up to all but its last
\* -L records), and for L >= 1 the pages at offsets 0, L, 2L, ... joined are
\* the filtered and sorted sequence, every record once and in order.
C4_Pagination ==
    (Answered /\ Last.status = 200) =>
        /\ Last.req.limit >= 0 => Len(Last.page[1]) <= Last.req.limit
        /\ Last.req.limit >= 1 =>
              Pages(cache[1], Last.req, 1) = FullResult(cache[1], Last.req)
        /\ (Last.req.limit >= 1 /\ Last.req.offset >= 0) =>
              \A i \in 1..Len(Last.page[1]) :
                  Last.page[1][i] = FullResult(cache[1], Last.req)[Last.req.offset + i]

\* The second page of one record out of a longer sequence.
C4_Witness ==
    /\ Answered
    /\ Last.status = 200
    /\ Last.req.limit = 1
    /\ Last.req.offset = 1
    /\ Len(Last.page[1]) = 1
    /\ Len(FullResult(cache[1], Last.req)) >= 3

---------------------------------------------------------------------------
(* C5: the slice never raises and clamps (SpecQuery) *)

\* The elements of seq at the 0-based positions lo .. hi - 1.
Range(seq, lo, hi) == IF hi > lo THEN SubSeq(seq, lo + 1, hi) ELSE << >>

\* C5, as claimed: the page is the records at the positions of
\* [offset, offset + limit) that lie in [0, length).
C5_ClampedInterval ==
    (Answered /\ Last.status = 200) =>
        LET full == FullResult(cache[1], Last.req) IN
        Last.page[1] = Range(full, Max(Last.req.offset, 0),
                             Min(Last.req.offset + Last.req.limit, Len(full)))

\* A bound of the slice counted from the end when it is negative.
FromEnd(i, len) == IF i < 0 THEN i + len ELSE i

\* C5, amended: the slice never raises (a request with a filter is answered
\* 200 unless the sort raised); when offset >= 0 and offset + limit >= 0 the page
\* is the records at the positions of [offset, offset + limit) within
\* [0, length); a negative offset, or a negative offset + limit, is first counted
\* back from the end of the sequence and then clamped.
C5_SliceSemantics ==
    Answered =>
        /\ Last.status \in {200, 400, 429, 500}
        /\ Last.status = 500 =>
              SortRaises(Filtered(cache[1], Last.req.q, Last.req.tz, Last.req.min_pop),
                         Last.req.sort)
        /\ Last.status = 200 =>
              LET full == FullResult(cache[1], Last.req)
                  lo == Max(FromEnd(Last.req.offset, Len(full)), 0)
                  hi == Min(FromEnd(Last.req.offset + Last.req.limit, Len(full)), Len(full))
              IN  /\ Last.page[1] = Range(full, lo, hi)
                  /\ (Last.req.offset >= 0 /\ Last.req.offset + Last.req.limit >= 0) =>
                        Last.page[1] = Range(full, Last.req.offset,
                                             Min(Last.req.offset + Last.req.limit, Len(full)))

\* A negative offset took the page from the end of the sequence.
C5_Witness ==
    /\ Answered
    /\ Last.status = 200
    /\ Last.req.offset = -2
    /\ Last.req.limit = 1
    /\ Len(FullResult(cache[1], Last.req)) = 4
    /\ Last.page[1] = <<FullResult(cache[1], Last.req)[3]>>

---------------------------------------------------------------------------
(* C6: the sort (SpecQuery) *)

KeysTie(a, b, sort) == ~KeyLess(a, b, sort) /\ ~KeyLess(b, a, sort)

\* The position of record c in seq (the records of a file are distinct).
PositionIn(c, seq) == CHOOSE i \in 1..Len(seq) : seq[i] = c

SameRecords(a, b) ==
    /\ Len(a) = Len(b)
    /\ \A i \in 1..Len(a) : \E j \in 1..Len(b) : a[i] = b[j]
    /\ \A j \in 1..Len(b) : \E i \in 1..Len(a) : a[i] = b[j]

\* C6: with a sort key that every record has, the page of a request with the
\* default limit and offset is a permutation of the filtered records, ascending
\* by the key unless order is exactly "desc" and descending then, with equal
\* keys in dataset order; and without ties the descending result is the
\* reverse of the ascending one.
C6_SortOrder ==
    (/\ Answered
     /\ Last.status = 200
     /\ WholePage(Last.req)
     /\ TruthyName(Last.req.sort)
     /\ \A i \in 1..Len(cache[1]) : SortKey(cache[1][i], Last.req.sort[1]) # None) =>
        LET key == Last.req.sort[1]
            kept == Filtered(cache[1], Last.req.q, Last.req.tz, Last.req.min_pop)
            out == Last.page[1]
            desc == Last.req.order = "desc"
        IN  /\ SameRecords(out, kept)
            /\ \A i, j \in 1..Len(out) : i < j =>
                  /\ IF desc THEN ~KeyLess(out[i], out[j], key)
                             ELSE ~KeyLess(out[j], out[i], key)
                  /\ KeysTie(out[i], out[j], key) =>
                        PositionIn(out[i], kept) < PositionIn(out[j], kept)
            /\ (\A i, j \in 1..Len(kept) : i # j => ~KeysTie(kept[i], kept[j], key)) =>
                  Sorted(kept, key, TRUE) = Reverse(Sorted(kept, key, FALSE))

\* A descending sort by population over records two of which tie.
C6_Witness ==
    /\ Answered
    /\ Last.status = 200
    /\ WholePage(Last.req)
    /\ Last.req.sort = Some("pop")
    /\ Last.req.order = "desc"
    /\ Len(Last.page[1]) = 4
    /\ KeysTie(Last.page[1][3], Last.page[1][4], "pop")

---------------------------------------------------------------------------
(* C7: the filters compose as an intersection (SpecQuery) *)

\* Each filter alone, as the request states it.
KeepsQ(c, r) == Truthy(r.q) => PartialRatio(Lower(r.q[1]), Lower(c.name)) >= Threshold
KeepsTz(c, r) == Truthy(r.tz) => c.tz = r.tz[1]
KeepsPop(c, r) == r.min_pop # None => c.pop >= r.min_pop[1]

\* C7: the records the three filter steps keep (the page of a request with no
\* sort and the default limit and offset) are, in dataset order, the records
\* that each supplied filter keeps alone; the result is a subsequence of each
\* single-filter result and is the same in every order of the steps.
C7_FilterIntersection ==
    (Answered /\ Last.status = 200 /\ WholePage(Last.req) /\ ~TruthyName(Last.req.sort)) =>
        LET r == Last.req
            data == cache[1]
            both == SelectSeq(data, LAMBDA c : KeepsQ(c, r) /\ KeepsTz(c, r) /\ KeepsPop(c, r))
        IN  /\ Last.page[1] = both
            /\ Last.page[1] = SelectSeq(StepQ(data, r.q), LAMBDA c : KeepsTz(c, r) /\ KeepsPop(c, r))
            /\ Last.page[1] = SelectSeq(StepTz(data, r.tz), LAMBDA c : KeepsQ(c, r) /\ KeepsPop(c, r))
            /\ Last.page[1] = SelectSeq(StepPop(data, r.min_pop), LAMBDA c : KeepsQ(c, r) /\ KeepsTz(c, r))
            /\ StepQ(StepTz(StepPop(data, r.min_pop), r.tz), r.q) = both
            /\ StepTz(StepPop(StepQ(data, r.q), r.min_pop), r.tz) = both
            /\ StepPop(StepQ(StepTz(data, r.tz), r.q), r.min_pop) = both
            /\ StepQ(StepPop(StepTz(data, r.tz), r.min_pop), r.q) = both
            /\ StepTz(StepQ(StepPop(data, r.min_pop), r.q), r.tz) = both

\* The three filters together, each of which alone keeps more.
C7_Witness ==
    /\ Answered
    /\ Last.status = 200
    /\ WholePage(Last.req)
    /\ Last.req.sort = None
    /\ Truthy(Last.req.q) /\ Truthy(Last.req.tz) /\ Last.req.min_pop # None
    /\ Len(Last.page[1]) = 1
    /\ Len(StepQ(cache[1], Last.req.q)) > 1
    /\ Len(StepTz(cache[1], Last.req.tz)) > 1
    /\ Len(StepPop(cache[1], Last.req.min_pop)) > 1

---------------------------------------------------------------------------
(* C8: the keys are independent (SpecLimiter) *)

\* C8: a check of one client leaves the counter, the expiry and the decision
\* of every other client as they were, and the first check of a client with
\* no open window is admitted whatever the other clients' state, also while
\* another client is over its quota.
C8_KeysIndependent ==
    [][ \A c \in Clients :
            Receive(c, PlainRequest) =>
                /\ \A d \in Clients \ {c} :
                      /\ storage'[key_func(d)] = storage[key_func(d)]
                      /\ expirations'[key_func(d)] = expirations[key_func(d)]
                      /\ WouldAdmit(d)' = WouldAdmit(d)
                      /\ recent'[d] = recent[d]
                /\ (AdmittedInLast(c, TicksPerWindow) = 0 /\ \E d \in Clients \ {c} : ~WouldAdmit(d)) =>
                      /\ recent'[c][1] = 1
                      /\ inflight' # inflight ]_vars

\* One client is over its quota and the other's first request was served.
C8_Witness ==
    /\ Answered
    /\ Last.status = 200
    /\ storage[key_func(Last.client)] = 1
    /\ \E d \in Clients \ {Last.client} :
          /\ WindowOpen(key_func(d))
          /\ storage[key_func(d)] > Quota
          /\ ~WouldAdmit(d)

---------------------------------------------------------------------------
(* C9: a rejection is not permanent (SpecLimiter) *)

\* C9: a client none of whose requests was admitted in the last 60 seconds is
\* admitted at its next check, however many of its checks were rejected since.
C9_ExpiresAfterWindow ==
    \A c \in Clients : AdmittedInLast(c, TicksPerWindow) = 0 => WouldAdmit(c)

\* The last response was a 429 to the client whose next request, 60 seconds
\* after its last admission, has been admitted and is in flight.
C9_Witness ==
    /\ Answered
    /\ Last.status = 429
    /\ inflight # {}
    /\ \A a \in inflight : a.client = Last.client
    /\ storage[key_func(Last.client)] = 1
    /\ AdmittedInLast(Last.client, TicksPerWindow) = 1

---------------------------------------------------------------------------
(* C10: the limiter runs first (SpecServer) *)

RECURSIVE SumOver(_, _)
SumOver(S, f) ==
    IF S = {} THEN 0
    ELSE LET x == CHOOSE y \in S : TRUE IN f[x] + SumOver(S \ {x}, f)

\* C10: every response starts with the limit check; a 429 has run nothing
\* else, whatever the request's parameters; a 400 has run the check and the
\* validation only; and every request received, whatever its answer, has been
\* counted against its key (within the one window of this specification the
\* counters add up to the requests received).
C10_LimiterFirst ==
    /\ SumOver(Keys, storage) = sent
    /\ Answered =>
          /\ Last.steps[1] = "limit"
          /\ Last.status = 429 =>
                /\ Last.steps = <<"limit">>
                /\ Last.page = None
                /\ storage[key_func(Last.client)] > Quota
          /\ Last.status = 400 =>
                /\ Last.steps = <<"limit", "validate">>
                /\ storage[key_func(Last.client)] >= 1

\* A request without any filter was rejected by the limiter with 429.
C10_Witness ==
    /\ Answered
    /\ Last.status = 429
    /\ NoFilter(Last.req)
    /\ reads = 0

=============================================================================
